---- MODULE Spec2Model ----
(***************************************************************************)
(* The HTTP gateway of PaddleOCR-json (cpp/src/http_server.cpp): the five  *)
(* routes registered by HttpServer::setup_routes, the three OCR handlers,  *)
(* the remote fetcher download_image_from_url and the response composer.   *)
(* Each request is handled by one worker; a handler runs atomically up to  *)
(* its next blocking call (the outbound GET, the OCR backend call).        *)
(***************************************************************************)
EXTENDS Integers, Sequences, FiniteSets, TLC

\* ------------------------------------------------------------------ bounds
\* Number of requests the gateway receives (each on its own worker).
NumReq == 2
\* Number of requests followed under the fair specification.
NumLiveReq == 1
\* Size in bytes of the small uploaded / fetched buffers.
SmallLen == 6
\* Number of requests sent to one route in a row.
NumRepeat == 3

Req == 1..NumReq
LiveReq == 1..NumLiveReq

\* --------------------------------------------------------------- constants
PROJECT_VER == "v1.4.1 dev.1"

\* server_.set_payload_max_length(10 * 1024 * 1024)
PayloadMaxLength == 10 * 1024 * 1024
\* if (file.content.size() > 10 * 1024 * 1024) in handle_ocr_upload
UploadLimit == 10 * 1024 * 1024
\* if (body.size() > 10 * 1024 * 1024) in download_image_from_url
DownloadLimit == 10 * 1024 * 1024

\* Default headers that leave out Access-Control-Allow-Headers.
default_headers_two ==
  { <<"Access-Control-Allow-Origin", "*">>,
    <<"Access-Control-Allow-Methods", "POST, GET, OPTIONS">> }

\* The CORS headers given to server_.set_default_headers.
default_headers ==
  { <<"Access-Control-Allow-Origin", "*">>,
    <<"Access-Control-Allow-Methods", "POST, GET, OPTIONS">>,
    <<"Access-Control-Allow-Headers", "Content-Type, Authorization">> }

\* The method+path pairs bound by setup_routes, and the handler of each.
RouteTable ==
  { <<"GET", "/api/health", "handle_health">>,
    <<"GET", "/api/version", "handle_version">>,
    <<"POST", "/api/ocr", "handle_ocr_upload">>,
    <<"POST", "/api/ocr/base64", "handle_ocr_base64">>,
    <<"POST", "/api/ocr/url", "handle_ocr_url">> }

Matches(method, path) == {t \in RouteTable : t[1] = method /\ t[2] = path}

HandlerOf(method, path) ==
  IF Matches(method, path) = {} THEN "none"
  ELSE (CHOOSE t \in Matches(method, path) : TRUE)[3]

\* ------------------------------------------------------------- data model
\* A byte buffer: what the codec makes of it, and its length in bytes.
Buffer(kind, size) == [kind |-> kind, size |-> size]

Buffers ==
  { Buffer("imgA", SmallLen), Buffer("imgB", UploadLimit - 1),
    Buffer("imgB", DownloadLimit), Buffer("imgA", DownloadLimit + 1),
    Buffer("garbage", SmallLen), Buffer("bomb", SmallLen) }

\* C++ exceptions: the dynamic type and what().
Exc(type, what) == [type |-> type, what |-> what]
IsStdException(e) == e.type # "non-std"
IsParseError(e) == e.type = "nlohmann::json::parse_error"

\* cv::Mat as seen by the gateway: empty() and the picture it holds.
Mat(empty, of) == [empty |-> empty, of |-> of]
EmptyMat == Mat(TRUE, "none")

\* Results of a call: a value or a thrown exception.
Ok(v) == [k |-> "ok", v |-> v]
Thrown(e) == [k |-> "throw", exc |-> e]

\* -------------------------------------------------------- response composer
NoBody == <<>>

\* httplib::Response as the transport creates it for a request.
NewResponse ==
  [status |-> -1, content_type |-> "", body |-> NoBody, headers |-> default_headers]

\* res.set_content(body, content_type)
set_content(res, body, content_type) ==
  [res EXCEPT !.body = body, !.content_type = content_type]

\* res.status = status
set_status(res, status) == [res EXCEPT !.status = status]

\* nlohmann::json::dump() of an object: its members in key order.
Dump(pairs) == <<"object", pairs>>

create_error_response(code, message) ==
  Dump(<< <<"code", code>>, <<"error", message>> >>)

\* One access-log line.
log_request(method, path, status) ==
  <<"log", [method |-> method, path |-> path, status |-> status]>>

\* ------------------------------------------------------------ image decoder
\* cv::imdecode on the buffer: a raster, an empty Mat for bytes that are no
\* image, or a cv::Exception raised by the codec.
imdecode(data) ==
  CASE data.kind \in {"imgA", "imgB"} -> Ok(Mat(FALSE, data.kind))
    [] data.kind = "bomb" -> Thrown(Exc("cv::Exception", "imdecode failed"))
    [] OTHER -> Ok(EmptyMat)

decode_image_from_bytes(data) == imdecode(data)

\* The event a decode call leaves in the request's trace.
DecodeEvent(data) == <<"decode", data>>

\* ------------------------------------------------------------------ base64
\* A base64 text: whether all its characters are in the alphabet, its length,
\* its padding and the bytes it stands for.
base64_encode(data) ==
  [valid |-> TRUE, len |-> 4 * ((data.size + 2) \div 3),
   pad |-> (3 - (data.size % 3)) % 3, kind |-> data.kind]

\* "not-base64!!"
NotBase64 == [valid |-> FALSE, len |-> 12, pad |-> 0, kind |-> "garbage"]

base64_decode(s) ==
  IF ~s.valid
  THEN Thrown(Exc("std::runtime_error", "Input is not valid base64-encoded data."))
  ELSE Ok(Buffer(s.kind, (s.len \div 4) * 3 - s.pad))

\* -------------------------------------------------------------- JSON bodies
\* A request body as nlohmann::json::parse sees it: well-formed or not,
\* whether the required member is there, whether it is a string, its value.
JsonBody(wf, has, is_string, value) ==
  [wf |-> wf, has |-> has, is_string |-> is_string, value |-> value]

json_parse(body) ==
  IF body.wf THEN Ok(body)
  ELSE Thrown(Exc("nlohmann::json::parse_error", "[json.exception.parse_error.101] parse error"))

\* std::string s = body[field]
json_get_string(body) ==
  IF body.is_string THEN Ok(body.value)
  ELSE Thrown(Exc("nlohmann::json::type_error", "[json.exception.type_error.302] type must be string"))

\* ----------------------------------------------------------- std::string
\* Strings that the code takes apart are sequences of characters.
npos == -1

Min(a, b) == IF a <= b THEN a ELSE b

\* s.substr(pos, n), for pos <= s.size()
substr(s, pos, n) == SubSeq(s, pos + 1, Min(Len(s), pos + n))

\* s.substr(pos), for pos <= s.size()
substr_from(s, pos) == SubSeq(s, pos + 1, Len(s))

\* s.find(c): the 0-based index of the first c, or npos
find(s, c) ==
  IF \E i \in 1..Len(s) : s[i] = c
  THEN (CHOOSE i \in 1..Len(s) : s[i] = c /\ \A j \in 1..(i - 1) : s[j] # c) - 1
  ELSE npos

Digits == <<"0", "1", "2", "3", "4", "5", "6", "7", "8", "9">>
IsDigit(c) == \E d \in 1..10 : Digits[d] = c
DigitValue(c) == (CHOOSE d \in 1..10 : Digits[d] = c) - 1

INT_MAX == 2147483647

\* The longest prefix of s made of digits.
RECURSIVE DigitPrefixLen(_)
DigitPrefixLen(s) ==
  IF s = <<>> \/ ~IsDigit(Head(s)) THEN 0 ELSE 1 + DigitPrefixLen(Tail(s))

\* The value of the digits s after acc, or -1 once it is over INT_MAX.
RECURSIVE DecimalValue(_, _)
DecimalValue(s, acc) ==
  IF s = <<>> THEN acc
  ELSE IF acc > (INT_MAX - DigitValue(Head(s))) \div 10 THEN -1
  ELSE DecimalValue(Tail(s), 10 * acc + DigitValue(Head(s)))

\* std::stoi(s): an optional sign, then the leading digits; whatever follows
\* them is ignored. No digits: invalid_argument; too large: out_of_range.
stoi(s) ==
  LET signed == s # <<>> /\ Head(s) \in {"-", "+"}
      body == IF signed THEN Tail(s) ELSE s
      n == DigitPrefixLen(body)
      v == DecimalValue(SubSeq(body, 1, n), 0)
  IN  IF n = 0 THEN Thrown(Exc("std::invalid_argument", "stoi"))
      ELSE IF v = -1 THEN Thrown(Exc("std::out_of_range", "stoi"))
      ELSE Ok(IF signed /\ Head(s) = "-" THEN 0 - v ELSE v)

\* --------------------------------------------------------- remote fetcher
SchemeHttps == <<"h", "t", "t", "p", "s", ":", "/", "/">>
SchemeHttp == <<"h", "t", "t", "p", ":", "/", "/">>

\* What download_image_from_url does before it opens a connection.
Failed(error) == [k |-> "fail", error |-> error, target |-> <<>>]
Connect(host, port, path, use_ssl) ==
  [k |-> "get", error |-> "",
   target |-> [host |-> host, port |-> port, path |-> path, use_ssl |-> use_ssl]]

\* Lines 616-634: host, path and port out of the url without its scheme.
parse_authority(url_copy, use_ssl, port0) ==
  LET path_pos == find(url_copy, "/")
      host0 == IF path_pos # npos THEN substr(url_copy, 0, path_pos) ELSE url_copy
      path == IF path_pos # npos THEN substr_from(url_copy, path_pos) ELSE <<"/">>
      port_pos == find(host0, ":")
      port == IF port_pos # npos THEN stoi(substr_from(host0, port_pos + 1)) ELSE Ok(port0)
      host == IF port_pos # npos THEN substr(host0, 0, port_pos) ELSE host0
  IN  IF port.k = "throw"
      THEN Failed("Error downloading image: " \o port.exc.what)
      ELSE Connect(host, port.v, path, use_ssl)

\* A scheme check that takes whatever precedes "://" for a scheme.
scheme_check_lenient(url) ==
  IF substr(url, 0, 8) = SchemeHttps THEN [ok |-> TRUE, use_ssl |-> TRUE, port |-> 443, rest |-> substr_from(url, 8)]
  ELSE [ok |-> TRUE, use_ssl |-> FALSE, port |-> 80, rest |-> substr_from(url, Min(Len(url), 7))]

\* Lines 596-613: the scheme check.
scheme_check(url) ==
  IF substr(url, 0, 8) = SchemeHttps THEN [ok |-> TRUE, use_ssl |-> TRUE, port |-> 443, rest |-> substr_from(url, 8)]
  ELSE IF substr(url, 0, 7) = SchemeHttp THEN [ok |-> TRUE, use_ssl |-> FALSE, port |-> 80, rest |-> substr_from(url, 7)]
  ELSE [ok |-> FALSE, use_ssl |-> FALSE, port |-> 80, rest |-> <<>>]

\* A fetcher that, in a build without TLS support, fetches an https url over
\* plain http.
download_begin_downgrade(url, ssl) ==
  LET sc == scheme_check(url)
  IN  IF ~sc.ok THEN Failed("Invalid URL scheme. Use http:// or https://")
      ELSE LET c == parse_authority(sc.rest, sc.use_ssl, sc.port)
           IN  IF c.k = "fail" THEN c
               ELSE IF sc.use_ssl /\ ~ssl
               THEN Connect(c.target.host, c.target.port, c.target.path, FALSE)
               ELSE c

\* download_image_from_url up to cli.Get(path); ssl says whether the build has
\* CPPHTTPLIB_OPENSSL_SUPPORT.
download_begin(url, ssl) ==
  LET sc == scheme_check(url)
  IN  IF ~sc.ok THEN Failed("Invalid URL scheme. Use http:// or https://")
      ELSE LET c == parse_authority(sc.rest, sc.use_ssl, sc.port)
           IN  IF c.k = "fail" THEN c
               ELSE IF sc.use_ssl /\ ~ssl
               THEN Failed("HTTPS not supported (compiled without SSL support)")
               ELSE c

\* The result of cli.Get: no response at all, or a status and a body.
GetResult(responded, status, body) ==
  [responded |-> responded, status |-> status, body |-> body]

\* The size check left out.
download_too_large_off(body) == FALSE

\* The size check of lines 683-688.
download_too_large(body) == body.size > DownloadLimit

\* download_image_from_url taking every upstream response for a success,
\* whatever its status.
download_finish_any_status(result) ==
  IF ~result.responded
  THEN [img |-> EmptyMat, ev |-> <<>>, error |-> "Failed to fetch image: HTTP 0"]
  ELSE IF download_too_large(result.body)
  THEN [img |-> EmptyMat, error |-> "Image size exceeds 10MB limit", ev |-> <<>>]
  ELSE LET d == decode_image_from_bytes(result.body)
       IN  IF d.k = "throw"
           THEN [img |-> EmptyMat, ev |-> <<DecodeEvent(result.body)>>,
                 error |-> "Error downloading image: " \o d.exc.what]
           ELSE [img |-> d.v, error |-> "", ev |-> <<DecodeEvent(result.body)>>]

\* download_image_from_url from the return of cli.Get on: the Mat and the error
\* string handed back, and the decode call made on the way (if any).
download_finish(result) ==
  IF ~(result.responded /\ result.status = 200)
  THEN [img |-> EmptyMat, ev |-> <<>>,
        error |-> "Failed to fetch image: HTTP "
                    \o ToString(IF result.responded THEN result.status ELSE 0)]
  ELSE IF download_too_large(result.body)
  THEN [img |-> EmptyMat, error |-> "Image size exceeds 10MB limit", ev |-> <<>>]
  ELSE LET d == decode_image_from_bytes(result.body)
       IN  IF d.k = "throw"
           THEN [img |-> EmptyMat, ev |-> <<DecodeEvent(result.body)>>,
                 error |-> "Error downloading image: " \o d.exc.what]
           ELSE [img |-> d.v, error |-> "", ev |-> <<DecodeEvent(result.body)>>]

\* ---------------------------------------------------------------- handlers
\* How far a handler got: it returned, an exception left it, or it is inside
\* a blocking call (the last event of ev names the call).
NoExc == Exc("none", "")
Return(res, ev) == [k |-> "return", res |-> res, ev |-> ev, exc |-> NoExc]
Raise(res, ev, e) == [k |-> "throw", res |-> res, ev |-> ev, exc |-> e]
Call(res, ev) == [k |-> "call", res |-> res, ev |-> ev, exc |-> NoExc]

\* Where the worker waits during the call named by the last event of ev.
WaitsAt(o) ==
  CASE o.ev[Len(o.ev)][1] = "get" -> "fetching"
    [] o.ev[Len(o.ev)][1] = "ocr" -> "in_ocr"
    [] OTHER -> "blocked"

\* The call events.
OcrEvent(img) == <<"ocr", img.of>>
GetEvent(target) == <<"get", target>>

\* res.status = status; res.set_content(body, "application/json")
Reply(res, status, body) == set_content(set_status(res, status), body, "application/json")

\* A health check that reports the service as unavailable.
handle_health_unavailable(res) ==
  Return(Reply(res, 503,
           Dump(<< <<"status", "unavailable">>, <<"timestamp", "std::time(nullptr)">>,
                   <<"version", PROJECT_VER>> >>)), <<>>)

\* Lines 388-396.
handle_health(res) ==
  Return(set_content(res,
           Dump(<< <<"status", "ok">>, <<"timestamp", "std::time(nullptr)">>,
                   <<"version", PROJECT_VER>> >>),
           "application/json"), <<>>)

handle_version(res) ==
  Return(set_content(res,
           Dump(<< <<"api_version", "v1">>, <<"name", "PaddleOCR-json">>,
                   <<"version", PROJECT_VER>> >>),
           "application/json"), <<>>)

\* The text run_ocr_mat returns: whether it parses as JSON, the picture it
\* was computed from, and whether it went through parse + dump.
OcrText(json, of) == [json |-> json, of |-> of, dumped |-> FALSE]

\* The members of the document the backend returns.
BackendMembers == {"code", "data"}

\* The members of a text when read as JSON; parse + dump keeps them.
TextMembers(text) == IF text.json THEN BackendMembers ELSE {}
TextBody(text) == <<"text", text>>

\* catch (const std::exception &e) of handle_ocr_upload
upload_catch(o) ==
  IF o.k = "throw" /\ IsStdException(o.exc)
  THEN Return(Reply(o.res, 500,
                create_error_response(500, "Internal server error: " \o o.exc.what)), o.ev)
  ELSE o

\* The size check of lines 427-434.
upload_too_large(file) == file.size > UploadLimit

\* The check for the file part left out.
upload_missing_file_never(form) == FALSE

\* if (!req.form.has_file("image")) of line 413.
upload_missing_file(form) == ~form.has_file

\* handle_ocr_upload up to the call of run_ocr_mat.
handle_ocr_upload(form, res) ==
  upload_catch(
    IF upload_missing_file(form)
    THEN Return(Reply(res, 400,
           create_error_response(400, "No image file provided. Use 'image' field in form data.")), <<>>)
    ELSE IF upload_too_large(form.file)
    THEN Return(Reply(res, 413, create_error_response(413, "File size exceeds 10MB limit")), <<>>)
    ELSE LET d == decode_image_from_bytes(form.file)
             ev == <<DecodeEvent(form.file)>>
         IN  IF d.k = "throw" THEN Raise(res, ev, d.exc)
             ELSE IF d.v.empty
             THEN Return(Reply(res, 400,
                    create_error_response(400, "Invalid image format. Supported: JPEG, PNG, BMP, TIFF")), ev)
             ELSE Call(res, Append(ev, OcrEvent(d.v))))

\* handle_ocr_upload dropping a result that does not parse: the parse error
\* reaches the catch (const std::exception &) of the handler.
upload_resume_strict(res, out) ==
  upload_catch(
    IF out.k = "throw" THEN Raise(res, <<>>, out.exc)
    ELSE IF out.v.json
    THEN Return(set_content(res, TextBody([out.v EXCEPT !.dumped = TRUE]), "application/json"), <<>>)
    ELSE Raise(res, <<>>, Exc("nlohmann::json::parse_error", "[json.exception.parse_error.101] parse error")))

\* handle_ocr_upload from the return of run_ocr_mat on (lines 450-469).
upload_resume(res, out) ==
  upload_catch(
    IF out.k = "throw" THEN Raise(res, <<>>, out.exc)
    ELSE IF out.v.json
    THEN Return(set_content(res, TextBody([out.v EXCEPT !.dumped = TRUE]), "application/json"), <<>>)
    ELSE Return(set_content(res, TextBody(out.v), "application/json"), <<>>))

\* The event a base64_decode call leaves in the request's trace.
Base64Event(base64_str) == <<"base64", base64_str>>

\* The catch clauses of handle_ocr_base64 without the one for parse_error.
base64_catch_any(o) ==
  IF o.k = "throw" /\ IsStdException(o.exc)
  THEN Return(Reply(o.res, 500,
                create_error_response(500, "Internal server error: " \o o.exc.what)), o.ev)
  ELSE o

\* The catch clauses of handle_ocr_base64 (lines 521-532).
base64_catch(o) ==
  IF o.k = "throw" /\ IsParseError(o.exc)
  THEN Return(Reply(o.res, 400, create_error_response(400, "Invalid JSON: " \o o.exc.what)), o.ev)
  ELSE IF o.k = "throw" /\ IsStdException(o.exc)
  THEN Return(Reply(o.res, 500,
                create_error_response(500, "Internal server error: " \o o.exc.what)), o.ev)
  ELSE o

\* base64_decode without the try ... catch (...) around it: the failure
\* reaches the catch (const std::exception &) of the handler.
base64_step_nocatch(res, base64_str) ==
  LET b == base64_decode(base64_str)
  IN  IF b.k = "throw"
      THEN [ok |-> FALSE, bytes |-> Buffer("none", 0),
            reply |-> Reply(res, 500,
                        create_error_response(500, "Internal server error: " \o b.exc.what))]
      ELSE [ok |-> TRUE, bytes |-> b.v, reply |-> res]

\* Lines 489-502: base64_decode inside try ... catch (...).
base64_step(res, base64_str) ==
  LET b == base64_decode(base64_str)
  IN  IF b.k = "throw"
      THEN [ok |-> FALSE, bytes |-> Buffer("none", 0),
            reply |-> Reply(res, 400, create_error_response(400, "Invalid base64 encoding"))]
      ELSE [ok |-> TRUE, bytes |-> b.v, reply |-> res]

\* handle_ocr_base64 up to the call of run_ocr_mat.
handle_ocr_base64(body_text, res) ==
  base64_catch(
    LET body == json_parse(body_text)
    IN  IF body.k = "throw" THEN Raise(res, <<>>, body.exc)
        ELSE IF ~body.v.has
        THEN Return(Reply(res, 400, create_error_response(400, "Missing 'image' field in JSON body")), <<>>)
        ELSE LET s == json_get_string(body.v)
             IN  IF s.k = "throw" THEN Raise(res, <<>>, s.exc)
                 ELSE LET b == base64_step(res, s.v)
                          ev0 == <<Base64Event(s.v)>>
                      IN  IF ~b.ok THEN Return(b.reply, ev0)
                          ELSE LET d == decode_image_from_bytes(b.bytes)
                                   ev == Append(ev0, DecodeEvent(b.bytes))
                               IN  IF d.k = "throw" THEN Raise(res, ev, d.exc)
                                   ELSE IF d.v.empty
                                   THEN Return(Reply(res, 400,
                                          create_error_response(400, "Invalid image format")), ev)
                                   ELSE Call(res, Append(ev, OcrEvent(d.v))))

\* handle_ocr_base64 from the return of run_ocr_mat on (lines 516-532).
base64_resume(res, out) ==
  base64_catch(
    IF out.k = "throw" THEN Raise(res, <<>>, out.exc)
    ELSE Return(set_content(res, TextBody(out.v), "application/json"), <<>>))

\* The catch clauses of handle_ocr_url (lines 573-584).
url_catch(o) ==
  IF o.k = "throw" /\ IsParseError(o.exc)
  THEN Return(Reply(o.res, 400, create_error_response(400, "Invalid JSON: " \o o.exc.what)), o.ev)
  ELSE IF o.k = "throw" /\ IsStdException(o.exc)
  THEN Return(Reply(o.res, 500,
                create_error_response(500, "Internal server error: " \o o.exc.what)), o.ev)
  ELSE o

\* The empty image answered as an internal error.
url_empty_reply_internal(res, error) ==
  Reply(res, 500,
    create_error_response(500,
      IF error = "" THEN "Failed to download or decode image from URL" ELSE error))

\* Lines 557-563: the reply to an empty image.
url_empty_reply(res, error) ==
  Reply(res, 400,
    create_error_response(400,
      IF error = "" THEN "Failed to download or decode image from URL" ELSE error))

\* handle_ocr_url up to cli.Get inside download_image_from_url.
handle_ocr_url(body_text, res, ssl) ==
  url_catch(
    LET body == json_parse(body_text)
    IN  IF body.k = "throw" THEN Raise(res, <<>>, body.exc)
        ELSE IF ~body.v.has
        THEN Return(Reply(res, 400, create_error_response(400, "Missing 'url' field in JSON body")), <<>>)
        ELSE LET s == json_get_string(body.v)
             IN  IF s.k = "throw" THEN Raise(res, <<>>, s.exc)
                 ELSE LET c == download_begin(s.v, ssl)
                      IN  IF c.k = "fail" THEN Return(url_empty_reply(res, c.error), <<>>)
                          ELSE Call(res, <<GetEvent(c.target)>>))

\* handle_ocr_url without the img.empty() check of line 557: whatever the
\* fetcher returned goes to run_ocr_mat.
url_fetched_unchecked(res, result) ==
  url_catch(
    LET d == download_finish(result)
    IN  Call(res, Append(d.ev, OcrEvent(d.img))))

\* handle_ocr_url from the return of cli.Get up to the call of run_ocr_mat.
url_fetched(res, result) ==
  url_catch(
    LET d == download_finish(result)
    IN  IF d.img.empty THEN Return(url_empty_reply(res, d.error), d.ev)
        ELSE Call(res, Append(d.ev, OcrEvent(d.img))))

\* A handler that waits for the backend again when the call failed, and
\* never comes back.
url_resume_hangs(res, out) ==
  IF out.k = "throw" THEN Call(res, << <<"wait", out.exc>> >>)
  ELSE Return(set_content(res, TextBody(out.v), "application/json"), <<>>)

\* handle_ocr_url from the return of run_ocr_mat on (lines 568-584).
url_resume(res, out) ==
  url_catch(
    IF out.k = "throw" THEN Raise(res, <<>>, out.exc)
    ELSE Return(set_content(res, TextBody(out.v), "application/json"), <<>>))

\* The route lambdas of setup_routes: the handler, then log_request with
\* res.status; an exception leaving the handler leaves the lambda too.
route_lambda(method, path, o) ==
  IF o.k = "return"
  THEN [o EXCEPT !.ev = Append(o.ev, log_request(method, path, o.res.status))]
  ELSE o

\* --------------------------------------------------------------- transport
\* The HTTP server toolkit under the gateway. It answers by itself a request
\* whose body is over the payload limit (413) or that matches no route (404),
\* turns an exception that leaves a route lambda into a bare 500, and gives a
\* routed response that has no status yet the status 200.
transport_reject(status) == set_status(NewResponse, status)

transport_finish(o) ==
  IF o.k = "throw"
  THEN [o.res EXCEPT !.status = 500,
                     !.headers = @ \cup {<<"EXCEPTION_WHAT", o.exc.what>>}]
  ELSE IF o.res.status = -1 THEN set_status(o.res, 200) ELSE o.res

\* The events that end a request: the exception the transport caught (if
\* any) and the response it wrote.
transport_events(o) ==
  (IF o.k = "throw" THEN << <<"escape", o.exc>> >> ELSE <<>>)
    \o << <<"response", transport_finish(o)>> >>

\* ------------------------------------------------------------------ inputs
RequestLines ==
  {<<t[1], t[2]>> : t \in RouteTable} \cup { <<"GET", "/api/ocr">> }

\* Body sizes: none for a GET, at and just over the payload limit for a POST.
BodySizes(method) ==
  IF method = "GET" THEN {0} ELSE {PayloadMaxLength, PayloadMaxLength + 1}

NoFile == Buffer("none", 0)
Form(has_file, file) == [has_file |-> has_file, file |-> file]
NoForm == Form(FALSE, NoFile)

\* The multipart forms a body of body_size bytes can carry: the file is a
\* part of the body, so it is shorter than the body.
Forms(body_size) ==
  {NoForm} \cup {Form(TRUE, f) : f \in {b \in Buffers : b.size < body_size}}

NoJson == JsonBody(FALSE, FALSE, FALSE, <<>>)

\* The bodies of a JSON route: malformed, without the member, with a member
\* that is no string, and with each of the given strings.
JsonBodies(strings) ==
  { JsonBody(FALSE, FALSE, FALSE, <<>>), JsonBody(TRUE, FALSE, FALSE, <<>>),
    JsonBody(TRUE, TRUE, FALSE, <<>>) }
    \cup {JsonBody(TRUE, TRUE, TRUE, v) : v \in strings}

\* The base64 texts that fit into a body of body_size bytes.
Base64Strings(body_size) ==
  {s \in {base64_encode(b) : b \in Buffers} \cup {NotBase64} : s.len < body_size}

Urls ==
  { <<"h", "t", "t", "p", ":", "/", "/", "h", "/", "a">>,
    <<"h", "t", "t", "p", "s", ":", "/", "/", "h", ":", "8", "4", "4", "3">>,
    <<"f", "t", "p", ":", "/", "/", "h", "/", "a">>,
    <<"H", "T", "T", "P", ":", "/", "/", "h", "/", "a">>,
    <<"h", "/", "a">>,
    <<"h", "t", "t", "p", "s", ":", "/", "h">>,
    <<>>,
    <<"h", "t", "t", "p", ":", "/", "/", "h", ":", "x", "/", "a">> }

\* What the upstream server can answer to the GET.
GetResults ==
  { GetResult(FALSE, 0, NoFile), GetResult(TRUE, 404, NoFile),
    GetResult(TRUE, 204, NoFile) }
    \cup {GetResult(TRUE, 200, b) : b \in Buffers}

\* What the OCR backend can do with a raster: return a JSON text, return a
\* text that is no JSON, throw a std::exception, throw something else.
BackendResults(of) ==
  { Ok(OcrText(TRUE, of)), Ok(OcrText(FALSE, of)),
    Thrown(Exc("std::runtime_error", "ocr failed")),
    Thrown(Exc("non-std", "UNKNOWN")) }

\* ------------------------------------------------------------------- state
VARIABLES
  ssl_support,  \* the build has CPPHTTPLIB_OPENSSL_SUPPORT
  pc,           \* per request: "idle", "fetching", "in_ocr", "done"
  req,          \* per request: what the client sent
  res,          \* per request: the httplib::Response of the handler
  trace,        \* per request: the calls, log lines and responses so far
  server        \* where start() is, and the address server_ listens on

vars == <<ssl_support, pc, req, res, trace, server>>

\* The state of the listener: where start() is ("constructed", "listening",
\* "returned"), the addresses server_ is listening on, and the listen calls
\* made so far with what each returned ("true", "false", or "running" while
\* it has not).
Server(at, on, calls) == [at |-> at, on |-> on, calls |-> calls]
ListenCall(host, result) == [host |-> host, result |-> result]
Returned(b) == IF b THEN "true" ELSE "false"

\* The server after construction, and while it serves on 127.0.0.1.
Constructed == Server("constructed", {}, <<>>)
Serving == Server("listening", {"127.0.0.1"}, <<ListenCall("127.0.0.1", "running")>>)

Request(method, path, body_size, form, json) ==
  [method |-> method, path |-> path, body_size |-> body_size,
   form |-> form, json |-> json]

NoRequest == Request("", "", 0, NoForm, NoJson)

Init ==
  /\ ssl_support \in BOOLEAN
  /\ pc = [r \in Req |-> "idle"]
  /\ req = [r \in Req |-> NoRequest]
  /\ res = [r \in Req |-> NewResponse]
  /\ trace = [r \in Req |-> <<>>]
  /\ server = Serving

\* Requests are numbered in the order they arrive.
Arrives(r) == pc[r] = "idle" /\ (IF r = 1 THEN TRUE ELSE pc[r - 1] # "idle")

\* A gateway with a lock around run_ocr_mat: a worker gets into the call only
\* while no other worker is inside it.
Advance_locked(r, o) ==
  IF o.k = "call"
  THEN /\ WaitsAt(o) = "in_ocr" => \A q \in DOMAIN pc \ {r} : pc[q] # "in_ocr"
       /\ pc' = [pc EXCEPT ![r] = WaitsAt(o)]
       /\ res' = [res EXCEPT ![r] = o.res]
       /\ trace' = [trace EXCEPT ![r] = @ \o o.ev]
  ELSE /\ pc' = [pc EXCEPT ![r] = "done"]
       /\ res' = [res EXCEPT ![r] = transport_finish(o)]
       /\ trace' = [trace EXCEPT ![r] = @ \o o.ev \o transport_events(o)]

\* The worker of r has run as far as o says.
Advance(r, o) ==
  IF o.k = "call"
  THEN /\ pc' = [pc EXCEPT ![r] = WaitsAt(o)]
       /\ res' = [res EXCEPT ![r] = o.res]
       /\ trace' = [trace EXCEPT ![r] = @ \o o.ev]
  ELSE /\ pc' = [pc EXCEPT ![r] = "done"]
       /\ res' = [res EXCEPT ![r] = transport_finish(o)]
       /\ trace' = [trace EXCEPT ![r] = @ \o o.ev \o transport_events(o)]

\* The transport answers a request whose body is over the payload limit.
RejectPayload(r) ==
  /\ Arrives(r)
  /\ \E line \in RequestLines : \E n \in BodySizes(line[1]) :
       /\ n > PayloadMaxLength
       /\ req' = [req EXCEPT ![r] = Request(line[1], line[2], n, NoForm, NoJson)]
       /\ Advance(r, Return(transport_reject(413), <<>>))
  /\ UNCHANGED <<ssl_support, server>>

\* The transport answers a request that matches no route.
RejectUnmatched(r) ==
  /\ Arrives(r)
  /\ \E line \in RequestLines : \E n \in BodySizes(line[1]) :
       /\ n <= PayloadMaxLength
       /\ HandlerOf(line[1], line[2]) = "none"
       /\ req' = [req EXCEPT ![r] = Request(line[1], line[2], n, NoForm, NoJson)]
       /\ Advance(r, Return(transport_reject(404), <<>>))
  /\ UNCHANGED <<ssl_support, server>>

\* A health check that also reports how many requests the server has
\* received, from a counter the handlers keep in the server.
Health_counting(r) ==
  /\ Arrives(r)
  /\ \E n \in BodySizes("GET") :
       /\ n <= PayloadMaxLength
       /\ req' = [req EXCEPT ![r] = Request("GET", "/api/health", n, NoForm, NoJson)]
       /\ Advance(r, route_lambda("GET", "/api/health",
                    Return(set_content(NewResponse,
                             Dump(<< <<"requests", Cardinality({q \in DOMAIN pc : pc[q] # "idle"})>>,
                                     <<"status", "ok">>, <<"timestamp", "std::time(nullptr)">>,
                                     <<"version", PROJECT_VER>> >>),
                             "application/json"), <<>>)))
  /\ UNCHANGED <<ssl_support, server>>

\* GET /api/health
Health(r) ==
  /\ Arrives(r)
  /\ \E n \in BodySizes("GET") :
       /\ n <= PayloadMaxLength
       /\ req' = [req EXCEPT ![r] = Request("GET", "/api/health", n, NoForm, NoJson)]
       /\ Advance(r, route_lambda("GET", "/api/health", handle_health(NewResponse)))
  /\ UNCHANGED <<ssl_support, server>>

Version(r) ==
  /\ Arrives(r)
  /\ \E n \in BodySizes("GET") :
       /\ n <= PayloadMaxLength
       /\ req' = [req EXCEPT ![r] = Request("GET", "/api/version", n, NoForm, NoJson)]
       /\ Advance(r, route_lambda("GET", "/api/version", handle_version(NewResponse)))
  /\ UNCHANGED <<ssl_support, server>>

OcrUpload(r) ==
  /\ Arrives(r)
  /\ \E n \in BodySizes("POST") :
       /\ n <= PayloadMaxLength
       /\ \E form \in Forms(n) :
            /\ req' = [req EXCEPT ![r] = Request("POST", "/api/ocr", n, form, NoJson)]
            /\ Advance(r, route_lambda("POST", "/api/ocr",
                            handle_ocr_upload(form, NewResponse)))
  /\ UNCHANGED <<ssl_support, server>>

OcrBase64(r) ==
  /\ Arrives(r)
  /\ \E n \in BodySizes("POST") :
       /\ n <= PayloadMaxLength
       /\ \E json \in JsonBodies(Base64Strings(n)) :
            /\ req' = [req EXCEPT ![r] = Request("POST", "/api/ocr/base64", n, NoForm, json)]
            /\ Advance(r, route_lambda("POST", "/api/ocr/base64",
                            handle_ocr_base64(json, NewResponse)))
  /\ UNCHANGED <<ssl_support, server>>

OcrUrl(r) ==
  /\ Arrives(r)
  /\ \E n \in BodySizes("POST") :
       /\ n <= PayloadMaxLength
       /\ \E json \in JsonBodies(Urls) :
            /\ req' = [req EXCEPT ![r] = Request("POST", "/api/ocr/url", n, NoForm, json)]
            /\ Advance(r, route_lambda("POST", "/api/ocr/url",
                            handle_ocr_url(json, NewResponse, ssl_support)))
  /\ UNCHANGED <<ssl_support, server>>

\* A fetcher that sends the GET a second time when the first one failed.
FetchReturn_retry(r) ==
  /\ pc[r] = "fetching"
  /\ \E result \in GetResults :
       IF ~(result.responded /\ result.status = 200) /\ Len(SelectSeq(trace[r], LAMBDA e : e[1] = "get")) < 2
       THEN Advance(r, Call(res[r], << <<"fetched", result>>, trace[r][Len(trace[r])] >>))
       ELSE Advance(r, route_lambda("POST", "/api/ocr/url",
                         LET o == url_fetched(res[r], result)
                         IN  [o EXCEPT !.ev = << <<"fetched", result>> >> \o @]))
  /\ UNCHANGED <<ssl_support, req, server>>

\* cli.Get returns in the worker of r.
FetchReturn(r) ==
  /\ pc[r] = "fetching"
  /\ \E result \in GetResults :
       Advance(r, route_lambda("POST", "/api/ocr/url",
                    LET o == url_fetched(res[r], result)
                    IN  [o EXCEPT !.ev = << <<"fetched", result>> >> \o @]))
  /\ UNCHANGED <<ssl_support, req, server>>

\* The raster kept in one place for all workers: run_ocr_mat gets the one
\* of the first worker that is inside the call.
OcrArg_shared(r) ==
  LET q == CHOOSE q \in Req : pc[q] = "in_ocr" /\ \A p \in 1..(q - 1) : pc[p] # "in_ocr"
  IN  trace[q][Len(trace[q])][2]

\* The raster the worker of r handed to run_ocr_mat: the local img of its
\* handler.
OcrArg(r) == trace[r][Len(trace[r])][2]

\* A status that outlives its request: once some request has been answered
\* with 400, a handler that assigns no status sends its result with 400.
Resume_sticky(r, out) ==
  LET o == CASE req[r].path = "/api/ocr" -> upload_resume(res[r], out)
             [] req[r].path = "/api/ocr/base64" -> base64_resume(res[r], out)
             [] OTHER -> url_resume(res[r], out)
  IN  IF o.k = "return" /\ o.res.status = -1
         /\ \E q \in DOMAIN pc : pc[q] = "done" /\ res[q].status = 400
      THEN [o EXCEPT !.res = set_status(@, 400)]
      ELSE o

\* The rest of the handler of r once run_ocr_mat is back.
Resume(r, out) ==
  CASE req[r].path = "/api/ocr" -> upload_resume(res[r], out)
    [] req[r].path = "/api/ocr/base64" -> base64_resume(res[r], out)
    [] OTHER -> url_resume(res[r], out)

\* The workers other than that of r that are inside run_ocr_mat.
InBackend(r) == {q \in DOMAIN pc \ {r} : pc[q] = "in_ocr"}

\* run_ocr_mat returns or throws in the worker of r; the event keeps which
\* other workers were inside the call on the shared task_ at that moment.
OcrReturn(r) ==
  /\ pc[r] = "in_ocr"
  /\ \E out \in BackendResults(OcrArg(r)) :
       Advance(r, route_lambda(req[r].method, req[r].path,
                    LET o == Resume(r, out)
                    IN  [o EXCEPT !.ev = << <<"ocr_result", out, InBackend(r)>> >> \o @]))
  /\ UNCHANGED <<ssl_support, req, server>>

Step(r) ==
  \/ RejectPayload(r)
  \/ RejectUnmatched(r)
  \/ Health(r)
  \/ Version(r)
  \/ OcrUpload(r)
  \/ OcrBase64(r)
  \/ OcrUrl(r)
  \/ FetchReturn(r)
  \/ OcrReturn(r)

Next == \E r \in Req : Step(r)

Spec == Init /\ [][Next]_vars

\* The fetch and the OCR call of a request being followed eventually return
\* (or throw), and its worker is scheduled.
LiveNext == \E r \in LiveReq : Step(r)

LiveSpec ==
  /\ Init
  /\ [][LiveNext]_vars
  /\ \A r \in LiveReq : WF_vars(FetchReturn(r)) /\ WF_vars(OcrReturn(r))

\* Repeated calls of one route: NumRepeat requests to /api/ocr/base64.
RepeatReq == 1..NumRepeat

RepeatInit ==
  /\ ssl_support \in BOOLEAN
  /\ pc = [r \in RepeatReq |-> "idle"]
  /\ req = [r \in RepeatReq |-> NoRequest]
  /\ res = [r \in RepeatReq |-> NewResponse]
  /\ trace = [r \in RepeatReq |-> <<>>]
  /\ server = Serving

RepeatNext == \E r \in RepeatReq : OcrBase64(r) \/ OcrReturn(r)

RepeatSpec == RepeatInit /\ [][RepeatNext]_vars

\* ---------------------------------------------------------- start and stop
\* server_.listen(host, port_) up to where it blocks or returns: it returns
\* false at once when the address cannot be bound, else it serves.
listen(srv, host, bound) ==
  IF bound
  THEN Server("listening", {host}, Append(srv.calls, ListenCall(host, "running")))
  ELSE Server("returned", {}, Append(srv.calls, ListenCall(host, Returned(FALSE))))

\* start() going on to 0.0.0.0 whatever the first listen returned.
start_after_first_unchecked(srv, result, bound) == listen(srv, "0.0.0.0", bound)

\* Lines 749-753: start() once listen("127.0.0.1", port_) has returned.
start_after_first(srv, result, bound) ==
  IF ~result THEN listen(srv, "0.0.0.0", bound)
  ELSE Server("returned", {}, srv.calls)

\* start() up to where it blocks inside a listen call, or returns.
start(srv, bound1, bound2) ==
  LET first == listen(srv, "127.0.0.1", bound1)
  IN  IF first.at = "listening" THEN first
      ELSE start_after_first(first, FALSE, bound2)

\* The listen call srv is blocked in returns result; start() goes on.
listen_returned(srv, result, bound) ==
  LET n == Len(srv.calls)
      calls == [srv.calls EXCEPT ![n] = ListenCall(@.host, Returned(result))]
      back == Server("returned", {}, calls)
  IN  IF n = 1 THEN start_after_first(back, result, bound) ELSE back

\* main calls start().
Start ==
  /\ server.at = "constructed"
  /\ \E bound1, bound2 \in BOOLEAN : server' = start(server, bound1, bound2)
  /\ UNCHANGED <<ssl_support, pc, req, res, trace>>

\* stop(): server_.stop() makes the listen call that is serving return true;
\* it does nothing when the server is not serving.
Stop ==
  /\ server' = IF server.at = "listening"
               THEN listen_returned(server, TRUE, FALSE) ELSE server
  /\ UNCHANGED <<ssl_support, pc, req, res, trace>>

\* The listen call that is serving fails (accept error) and returns false.
ListenFails ==
  /\ server.at = "listening"
  /\ \E bound \in BOOLEAN : server' = listen_returned(server, FALSE, bound)
  /\ UNCHANGED <<ssl_support, pc, req, res, trace>>

StartInit ==
  /\ ssl_support \in BOOLEAN
  /\ pc = [r \in Req |-> "idle"]
  /\ req = [r \in Req |-> NoRequest]
  /\ res = [r \in Req |-> NewResponse]
  /\ trace = [r \in Req |-> <<>>]
  /\ server = Constructed

\* A request is accepted only while the server listens; one that is being
\* handled goes on after stop().
Serve(r) == (Arrives(r) => server.on # {}) /\ Step(r)

StartNext == Start \/ Stop \/ ListenFails \/ \E r \in LiveReq : Serve(r)

StartSpec == StartInit /\ [][StartNext]_vars

\* ---------------------------------------------------- url parsing, inputs
\* The authorities and the remainders the urls of the url parsing runs are
\* made of: scheme, then authority, then remainder.
Authorities ==
  { <<"h">>,
    <<"h", ":", "8", "0", "8", "0">>,
    <<"u", ":", "p", "@", "h">>,
    <<"[", ":", ":", "1", "]">>,
    <<"[", ":", ":", "1", "]", ":", "8", "0", "8", "0">>,
    <<"h", ":">>,
    <<"h", ":", "x">>,
    <<"h", ":", "8", "0", "a", "b", "c">>,
    <<"h", ":", "9", "9", "9", "9", "9">>,
    <<"h", ":", "0">>,
    <<"h", ":", "-", "1">>,
    <<"h", ":", "9", "9", "9", "9", "9", "9", "9", "9", "9", "9", "9">> }

Remainders ==
  { <<>>,
    <<"/", "a">>,
    <<"?", "x", "=", "1">>,
    <<"/", "a", "?", "x", "=", "1">> }

ParseUrls ==
  {scheme \o a \o rest : scheme \in {SchemeHttp, SchemeHttps}, a \in Authorities, rest \in Remainders}

\* POST /api/ocr/url with a body {"url": u} for one of the urls above.
OcrUrlOf(r) ==
  /\ Arrives(r)
  /\ \E n \in BodySizes("POST") :
       /\ n <= PayloadMaxLength
       /\ \E u \in ParseUrls :
            LET json == JsonBody(TRUE, TRUE, TRUE, u)
            IN  /\ req' = [req EXCEPT ![r] = Request("POST", "/api/ocr/url", n, NoForm, json)]
                /\ Advance(r, route_lambda("POST", "/api/ocr/url",
                                handle_ocr_url(json, NewResponse, ssl_support)))
  /\ UNCHANGED <<ssl_support, server>>

\* The first request.
FirstReq == CHOOSE r \in Req : \A q \in Req : r <= q

\* The url parsing runs: the first request, a POST /api/ocr/url, is followed
\* from its arrival to its response.
UrlNext == OcrUrlOf(FirstReq) \/ FetchReturn(FirstReq) \/ OcrReturn(FirstReq)

UrlSpec == Init /\ [][UrlNext]_vars

\* ------------------------------------------------------------ observations
\* The events of one kind in the trace of r.
Events(r, kind) == SelectSeq(trace[r], LAMBDA e : e[1] = kind)
Count(r, kind) == Len(Events(r, kind))
Done(r) == pc[r] = "done"
Received(r) == pc[r] # "idle"

\* The response written for r, once r is done.
Sent(r) == Events(r, "response")[1][2]

\* 10 MiB
TenMiB == 10 * 1024 * 1024

IsOcrPath(path) == path \in {"/api/ocr", "/api/ocr/base64", "/api/ocr/url"}

\* The results of the GET of r.
Fetched(r) ==
  {Events(r, "fetched")[i][2] : i \in 1..Count(r, "fetched")}

\* ------------------------------------------------------------------ claims

\* C1: every request received yields exactly one terminal response and
\* exactly one access-log line, on every path (success, 4xx, 500, an
\* exception that is no std::exception, a rejection before any handler).
C1_OneResponseOneLog ==
  \A r \in Req :
    /\ Count(r, "response") <= 1
    /\ Count(r, "log") <= 1
    /\ Done(r) => Count(r, "response") = 1 /\ Count(r, "log") = 1

\* C2: on all three intake paths decode_image_from_bytes is never invoked on
\* a buffer larger than 10 MiB.
C2_DecodeWithinLimit ==
  \A r \in Req :
    \A i \in 1..Len(trace[r]) :
      trace[r][i][1] = "decode" => trace[r][i][2].size <= TenMiB

\* C2 witness: a fetched body of exactly 10 MiB has been decoded.
C2_Witness ==
  \E r \in Req :
    /\ req[r].path = "/api/ocr/url"
    /\ \E i \in 1..Len(trace[r]) :
         trace[r][i][1] = "decode" /\ trace[r][i][2].size = TenMiB

\* The request r carried or fetched more than 10 MiB.
Oversized(r) ==
  \/ req[r].body_size > TenMiB
  \/ req[r].form.has_file /\ req[r].form.file.size > TenMiB
  \/ \E f \in Fetched(r) : f.responded /\ f.status = 200 /\ f.body.size > TenMiB

\* C3: a request body, uploaded file or fetched payload over 10 MiB is
\* answered with status 413, and no decode is attempted.
C3_Oversize413 ==
  \A r \in Req :
    Done(r) /\ Oversized(r) => Sent(r).status = 413 /\ Count(r, "decode") = 0

\* Whether s begins with the characters of prefix.
BeginsWith(s, prefix) ==
  Len(s) >= Len(prefix) /\ \A i \in 1..Len(prefix) : s[i] = prefix[i]

\* The request r is a POST /api/ocr/url whose body has a string `url`.
HasUrl(r) ==
  /\ req[r].path = "/api/ocr/url"
  /\ req[r].json.wf /\ req[r].json.has /\ req[r].json.is_string

BadScheme(url) == ~BeginsWith(url, SchemeHttp) /\ ~BeginsWith(url, SchemeHttps)

SchemeErrorBody ==
  <<"object", << <<"code", 400>>,
                 <<"error", "Invalid URL scheme. Use http:// or https://">> >> >>

\* C4: on /api/ocr/url a url that does not begin with exactly "http://" or
\* "https://" is answered with 400 and the scheme error, and no connection
\* or GET is made for the request.
C4_BadSchemeRejected ==
  \A r \in Req :
    Received(r) /\ HasUrl(r) /\ BadScheme(req[r].json.value) =>
      /\ Done(r)
      /\ Sent(r).status = 400
      /\ Sent(r).body = SchemeErrorBody
      /\ Count(r, "get") = 0

\* C4 witness: an upper-case HTTP:// url has been answered.
C4_Witness ==
  \E r \in Req :
    /\ Done(r) /\ HasUrl(r)
    /\ req[r].json.value = <<"H", "T", "T", "P", ":", "/", "/", "h", "/", "a">>
    /\ Sent(r).status = 400

\* The body is an ErrorResponse {"code": c, "error": m}.
IsErrorResponse(body) ==
  /\ Len(body) = 2 /\ body[1] = "object"
  /\ Len(body[2]) = 2
  /\ body[2][1][1] = "code" /\ body[2][2][1] = "error"

ErrorCode(body) == body[2][1][2]
ErrorMessage(body) == body[2][2][2]

Is2xx(status) == status >= 200 /\ status <= 299

\* C5: every error response has a body {"code": c, "error": m} with c equal
\* to the HTTP status of that response; no non-2xx response has another
\* body shape.
C5_ErrorEnvelope ==
  \A r \in Req :
    Done(r) /\ ~Is2xx(Sent(r).status) =>
      IsErrorResponse(Sent(r).body) /\ ErrorCode(Sent(r).body) = Sent(r).status

\* C6: the Content-Type of every response is application/json, on every
\* path, the responses made without a handler included.
C6_AlwaysJsonContentType ==
  \A r \in Req : Done(r) => Sent(r).content_type = "application/json"

\* The exceptions the OCR backend or the image decoder raised while the
\* handler of r was running.
Raised(r) ==
  {Events(r, "ocr_result")[i][2].exc :
     i \in {j \in 1..Count(r, "ocr_result") : Events(r, "ocr_result")[j][2].k = "throw"}}
  \cup
  {imdecode(Events(r, "decode")[i][2]).exc :
     i \in {j \in 1..Count(r, "decode") : imdecode(Events(r, "decode")[j][2]).k = "throw"}}

\* The message carries the text what, after one of the prefixes in use.
Mentions(message, what) ==
  message \in {prefix \o what :
                 prefix \in {"", "Internal server error: ", "Error downloading image: ",
                             "Invalid JSON: "}}

\* C7: an error raised inside a handler of the three OCR routes (by the OCR
\* backend or by the image decoder included) becomes a 500 response whose
\* ErrorResponse message contains the error's text, and no error escapes
\* the handler to the transport.
C7_ErrorsBecome500 ==
  \A r \in Req :
    Done(r) /\ IsOcrPath(req[r].path) /\ Raised(r) # {} =>
      /\ Count(r, "escape") = 0
      /\ Sent(r).status = 500
      /\ IsErrorResponse(Sent(r).body)
      /\ \E e \in Raised(r) : Mentions(ErrorMessage(Sent(r).body), e.what)

\* C8: with the fetch and the OCR call eventually returning (or throwing),
\* every request received eventually has its one response sent.
C8_EveryRequestAnswered ==
  \A r \in LiveReq : Received(r) ~> (Done(r) /\ Count(r, "response") = 1)

\* C8 witness: a request that went through the fetch and through a failing
\* OCR call has been answered.
C8_Witness ==
  \E r \in LiveReq :
    /\ Done(r) /\ Count(r, "get") = 1 /\ Count(r, "ocr") = 1
    /\ Raised(r) # {}
    /\ Count(r, "response") = 1

NoImageBody ==
  <<"object", << <<"code", 400>>,
                 <<"error", "No image file provided. Use 'image' field in form data.">> >> >>

\* The request r is a POST /api/ocr without a file part named image.
UploadWithoutFile(r) ==
  req[r].method = "POST" /\ req[r].path = "/api/ocr" /\ ~req[r].form.has_file

InvalidBase64(r) ==
  /\ req[r].path = "/api/ocr/base64"
  /\ req[r].json.wf /\ req[r].json.has /\ req[r].json.is_string
  /\ ~req[r].json.value.valid

\* C10: POST /api/ocr/base64 with an `image` string that is not valid base64
\* is answered with 400 and a message that names the base64 encoding, and
\* the OCR backend is not invoked.
C10_InvalidBase64 ==
  \A r \in Req :
    Received(r) /\ InvalidBase64(r) =>
      /\ Done(r)
      /\ Sent(r).status = 400
      /\ IsErrorResponse(Sent(r).body)
      /\ ErrorCode(Sent(r).body) = 400
      /\ ErrorMessage(Sent(r).body) = "Invalid base64 encoding"
      /\ Count(r, "ocr") = 0

\* C10 witness: "not-base64!!" has been answered.
C10_Witness ==
  \E r \in Req :
    Done(r) /\ InvalidBase64(r) /\ req[r].json.value = NotBase64 /\ Sent(r).status = 400

\* The request r is a POST to one of the two JSON routes.
IsJsonRoute(r) ==
  req[r].method = "POST" /\ req[r].path \in {"/api/ocr/base64", "/api/ocr/url"}
  /\ req[r].body_size <= TenMiB

\* The name of the member the route of r requires.
RequiredField(r) == IF req[r].path = "/api/ocr/base64" THEN "image" ELSE "url"

\* No base64 decode, fetch, image decode or OCR call was made for r.
NothingInvoked(r) ==
  /\ Count(r, "base64") = 0 /\ Count(r, "get") = 0
  /\ Count(r, "decode") = 0 /\ Count(r, "ocr") = 0

\* C11: on /api/ocr/base64 and /api/ocr/url a body that is malformed JSON is
\* answered with 400 and the "Invalid JSON" error, a well-formed body without
\* the required member (`image` / `url`) with 400 and the "Missing '...'
\* field" error, and in both cases no base64 decode, fetch, image decode or
\* OCR call happens.
C11_BadJsonBody ==
  \A r \in Req :
    Received(r) /\ IsJsonRoute(r) /\ ~(req[r].json.wf /\ req[r].json.has) =>
      /\ Done(r)
      /\ Sent(r).status = 400
      /\ IsErrorResponse(Sent(r).body)
      /\ ErrorCode(Sent(r).body) = 400
      /\ ErrorMessage(Sent(r).body) =
           (IF ~req[r].json.wf
            THEN "Invalid JSON: " \o json_parse(req[r].json).exc.what
            ELSE "Missing '" \o RequiredField(r) \o "' field in JSON body")
      /\ NothingInvoked(r)

\* C11 witness: a malformed body on /api/ocr/base64 and a body without `url`
\* on /api/ocr/url have both been answered.
C11_Witness ==
  \E r1, r2 \in Req :
    /\ Done(r1) /\ IsJsonRoute(r1) /\ req[r1].path = "/api/ocr/base64" /\ ~req[r1].json.wf
    /\ Done(r2) /\ IsJsonRoute(r2) /\ req[r2].path = "/api/ocr/url"
    /\ req[r2].json.wf /\ ~req[r2].json.has
    /\ Sent(r1).status = 400 /\ Sent(r2).status = 400

\* The answers of the upstream server to the GET of r that are no 200, and
\* the failures of the GET to get any answer.
FetchFailures(r) == {f \in Fetched(r) : ~(f.responded /\ f.status = 200)}

\* The status the fetcher reports for the result f of the GET.
ReportedStatus(f) == IF f.responded THEN f.status ELSE 0

\* C12: on /api/ocr/url an upstream response with a status s other than 200
\* is answered with 400 and a message that contains the decimal value of s;
\* a GET that got no response (connection failure, timeout) is answered with
\* 400 and the fetcher's message for it; in neither case is the decoder or
\* the OCR backend invoked.
C12_UpstreamFailure ==
  \A r \in Req :
    \A f \in FetchFailures(r) :
      /\ Done(r)
      /\ Sent(r).status = 400
      /\ IsErrorResponse(Sent(r).body)
      /\ ErrorCode(Sent(r).body) = 400
      /\ ErrorMessage(Sent(r).body) =
           "Failed to fetch image: HTTP " \o ToString(ReportedStatus(f))
      /\ Count(r, "decode") = 0 /\ Count(r, "ocr") = 0

\* C12 witness: an upstream 404 and a GET without response have both been
\* answered.
C12_Witness ==
  \E r1, r2 \in Req :
    /\ Done(r1) /\ Done(r2)
    /\ \E f \in FetchFailures(r1) : f.responded /\ f.status = 404
    /\ \E f \in FetchFailures(r2) : ~f.responded
    /\ ErrorMessage(Sent(r1).body) = "Failed to fetch image: HTTP 404"
    /\ ErrorMessage(Sent(r2).body) = "Failed to fetch image: HTTP 0"

\* The members of a JSON object body, as the set of their names.
MemberNames(body) == {body[2][i][1] : i \in 1..Len(body[2])}

\* The value of the member name of a JSON object body.
Member(body, name) ==
  body[2][CHOOSE i \in 1..Len(body[2]) : body[2][i][1] = name][2]

IsObject(body) == Len(body) = 2 /\ body[1] = "object"

\* The request r is a GET of path.
IsGet(r, path) == req[r].method = "GET" /\ req[r].path = path

\* C13: GET /api/health always returns 200 with a JSON body that has the
\* members status, version and timestamp with status == "ok", and GET
\* /api/version always returns 200 with name "PaddleOCR-json" and
\* api_version "v1", whatever requests came before (failed OCR requests
\* included) and whatever the OCR backend does.
C13_HealthAndVersion ==
  \A r \in Req :
    /\ Received(r) /\ IsGet(r, "/api/health") =>
         /\ Done(r)
         /\ Sent(r).status = 200
         /\ IsObject(Sent(r).body)
         /\ {"status", "version", "timestamp"} \subseteq MemberNames(Sent(r).body)
         /\ Member(Sent(r).body, "status") = "ok"
    /\ Received(r) /\ IsGet(r, "/api/version") =>
         /\ Done(r)
         /\ Sent(r).status = 200
         /\ IsObject(Sent(r).body)
         /\ {"name", "api_version"} \subseteq MemberNames(Sent(r).body)
         /\ Member(Sent(r).body, "name") = "PaddleOCR-json"
         /\ Member(Sent(r).body, "api_version") = "v1"

\* C13 witness: /api/health has been answered after an OCR request whose
\* backend call failed.
C13_Witness ==
  \E r1, r2 \in Req :
    /\ r1 < r2
    /\ Done(r1) /\ IsOcrPath(req[r1].path) /\ Raised(r1) # {} /\ Sent(r1).status = 500
    /\ Done(r2) /\ IsGet(r2, "/api/health") /\ Sent(r2).status = 200

\* The texts run_ocr_mat returned to the worker of r.
BackendTexts(r) ==
  {Events(r, "ocr_result")[i][2].v :
     i \in {j \in 1..Count(r, "ocr_result") : Events(r, "ocr_result")[j][2].k = "ok"}}

\* The text after nlohmann::json::parse and dump().
Reserialized(text) == [text EXCEPT !.dumped = TRUE]

ResponseMembers(body) ==
  IF body = NoBody THEN {}
  ELSE IF body[1] = "text" THEN TextMembers(body[2])
  ELSE MemberNames(body)

\* The response to r is a successful JSON response of POST /api/ocr.
UploadSuccess(r) ==
  /\ Done(r) /\ req[r].method = "POST" /\ req[r].path = "/api/ocr"
  /\ Sent(r).status = 200
  /\ \E text \in BackendTexts(r) : text.json

\* C15: the successful JSON response of POST /api/ocr has a member
\* processing_time_ms in addition to the backend's code and data.
C15_ProcessingTime ==
  \A r \in Req :
    UploadSuccess(r) =>
      {"code", "data", "processing_time_ms"} \subseteq ResponseMembers(Sent(r).body)

\* The response to r is an OCR result of POST /api/ocr.
UploadResult(r) ==
  /\ Done(r) /\ req[r].method = "POST" /\ req[r].path = "/api/ocr"
  /\ BackendTexts(r) # {}

\* The picture in the file r uploaded.
OwnImage(r) == imdecode(req[r].form.file).v.of

\* The workers that were inside run_ocr_mat when the call of r returned.
Overlapped(r) ==
  UNION {Events(r, "ocr_result")[i][3] : i \in 1..Count(r, "ocr_result")}

BackendOutcomes(r) ==
  [i \in 1..Count(r, "ocr_result") |-> Events(r, "ocr_result")[i][2]]

\* r1 and r2 are answered requests to /api/ocr/base64 with the same body,
\* for which the backend did the same.
SameBase64Call(r1, r2) ==
  /\ Done(r1) /\ Done(r2)
  /\ req[r1].method = "POST" /\ req[r1].path = "/api/ocr/base64"
  /\ req[r1] = req[r2]
  /\ BackendOutcomes(r1) = BackendOutcomes(r2)

LogLine(r) == Events(r, "log")[1][2]

\* The position in the trace of r of its first event of the kind.
IndexOf(r, kind) == CHOOSE i \in 1..Len(trace[r]) :
                      trace[r][i][1] = kind /\ \A j \in 1..(i - 1) : trace[r][j][1] # kind

\* C18: the access-log line of a request is emitted after its handler has
\* finished and carries the request's method, its path and its final status:
\* the status passed to log_request is the status of the response actually
\* sent, on the success paths (where the handler assigns no status) as on
\* the error paths.
C18_LogCarriesFinalStatus ==
  \A r \in Req :
    Done(r) /\ Count(r, "log") = 1 =>
      /\ IndexOf(r, "log") = Len(trace[r]) - 1
      /\ LogLine(r).method = req[r].method
      /\ LogLine(r).path = req[r].path
      /\ LogLine(r).status = Sent(r).status

\* The part of C18 that is about the error paths: a handler that assigned a
\* status has it in its log line.
C18_ErrorPaths ==
  \A r \in Req :
    Done(r) /\ Count(r, "log") = 1 /\ ~Is2xx(Sent(r).status) =>
      /\ IndexOf(r, "log") = Len(trace[r]) - 1
      /\ LogLine(r).method = req[r].method
      /\ LogLine(r).path = req[r].path
      /\ LogLine(r).status = Sent(r).status

\* The response to r is an error response.
IsError(r) == Done(r) /\ ~Is2xx(Sent(r).status)

\* The message of the response to r; none when the body is no ErrorResponse.
MessageOf(r) ==
  IF Sent(r).body # NoBody /\ IsErrorResponse(Sent(r).body)
  THEN ErrorMessage(Sent(r).body) ELSE ""

\* What download_image_from_url left in `error` for r, "" when it set none.
FetcherError(r) ==
  LET c == download_begin(req[r].json.value, ssl_support)
  IN  IF c.k = "fail" THEN c.error
      ELSE IF Fetched(r) = {} THEN ""
      ELSE download_finish(CHOOSE f \in Fetched(r) : TRUE).error

\* The decoder returned an empty image for r.
DecodedEmpty(r) ==
  \E i \in 1..Count(r, "decode") :
    LET d == imdecode(Events(r, "decode")[i][2]) IN d.k = "ok" /\ d.v.empty

\* The cause of the error response to r, from what r carried and from what
\* the fetcher, the decoder and the backend did; "none" when nothing failed.
Cause(r) ==
  CASE req[r].body_size > TenMiB -> "oversized"
    [] HandlerOf(req[r].method, req[r].path) = "none" -> "no route"
    [] UploadWithoutFile(r) -> "missing field"
    [] IsJsonRoute(r) /\ ~req[r].json.wf -> "bad format"
    [] IsJsonRoute(r) /\ ~req[r].json.has -> "missing field"
    [] IsJsonRoute(r) /\ ~req[r].json.is_string -> "bad format"
    [] InvalidBase64(r) -> "bad format"
    [] HasUrl(r) /\ BadScheme(req[r].json.value) -> "bad format"
    [] HasUrl(r) /\ Count(r, "get") = 0 /\ BeginsWith(req[r].json.value, SchemeHttp) -> "bad format"
    [] HasUrl(r) /\ Count(r, "get") = 0 -> "upstream failure"
    [] FetchFailures(r) # {} -> "upstream failure"
    [] Oversized(r) -> "oversized"
    [] Raised(r) # {} -> "internal"
    [] DecodedEmpty(r) -> "bad format"
    [] OTHER -> "none"

\* First part of C19: every error response carries a non-empty message.
C19_NonEmptyMessage ==
  \A r \in Req : IsError(r) => MessageOf(r) # ""

\* Second part of C19: two error responses whose causes are of different
\* categories never carry the same message text.
C19_CategoriesDistinct ==
  \A r1, r2 \in Req :
    IsError(r1) /\ IsError(r2) /\ MessageOf(r1) # "" /\ MessageOf(r2) # ""
      /\ Cause(r1) # Cause(r2) => MessageOf(r1) # MessageOf(r2)

\* Third part of C19: on /api/ocr/url the message of a 400 for an image that
\* could not be had is the fetcher's error string whenever the fetcher set
\* one, and the generic text only when it set none.
C19_FetcherMessage ==
  \A r \in Req :
    IsError(r) /\ HasUrl(r) /\ Sent(r).status = 400 =>
      MessageOf(r) = (IF FetcherError(r) # "" THEN FetcherError(r)
                      ELSE "Failed to download or decode image from URL")

\* C19: every error response carries a non-empty message, the message tells
\* the categories of causes apart (missing field, bad format, oversized,
\* upstream failure, internal error never share a text), and on
\* /api/ocr/url the message is the fetcher's error string whenever it set
\* one and the generic text only when it set none.
C19_ErrorMessages ==
  C19_NonEmptyMessage /\ C19_CategoriesDistinct /\ C19_FetcherMessage

\* The three CORS headers.
CorsHeaders ==
  { <<"Access-Control-Allow-Origin", "*">>,
    <<"Access-Control-Allow-Methods", "POST, GET, OPTIONS">>,
    <<"Access-Control-Allow-Headers", "Content-Type, Authorization">> }

\* C20: every response the gateway sends, on every route and with every
\* status (errors and responses made without a handler running included),
\* carries Access-Control-Allow-Origin: *, Access-Control-Allow-Methods:
\* POST, GET, OPTIONS and Access-Control-Allow-Headers: Content-Type,
\* Authorization.
C20_CorsOnEveryResponse ==
  \A r \in Req :
    \A i \in 1..Count(r, "response") :
      CorsHeaders \subseteq Events(r, "response")[i][2].headers

\* C20 witness: a 413 made without a handler and a 500 made for an exception
\* that left its handler have both been sent with the three headers.
C20_Witness ==
  \E r1, r2 \in Req :
    /\ Done(r1) /\ Count(r1, "log") = 0 /\ Sent(r1).status = 413
    /\ Done(r2) /\ Count(r2, "escape") = 1 /\ Sent(r2).status = 500
    /\ CorsHeaders \subseteq Sent(r1).headers
    /\ CorsHeaders \subseteq Sent(r2).headers

\* The event at position i of the trace of r is a decode that gave a
\* non-empty raster of the picture `of`.
DecodedAt(r, i, of) ==
  /\ trace[r][i][1] = "decode"
  /\ LET d == imdecode(trace[r][i][2]) IN d.k = "ok" /\ ~d.v.empty /\ d.v.of = of

Is4xx(status) == status >= 400 /\ status <= 499

FetcherFailed(r) == HasUrl(r) /\ Done(r) /\ Count(r, "ocr") = 0

\* C22: download_image_from_url lets no error escape: for every url and
\* every behaviour of the upstream (bad scheme, unparsable port, connection
\* failure, non-200 status, oversized body, undecodable body) it returns an
\* empty image and an error string to its caller, so that /api/ocr/url
\* answers the failure with 400, never with 500 or an unhandled exception.
C22_FetcherNeverThrows ==
  \A r \in Req :
    Received(r) /\ HasUrl(r) /\ pc[r] # "fetching" /\ Count(r, "ocr") = 0 =>
      /\ Done(r)
      /\ Count(r, "escape") = 0
      /\ Sent(r).status = 400
      /\ IsErrorResponse(Sent(r).body)
      /\ ErrorCode(Sent(r).body) = 400

\* C22 witness: a port that is no number and a body on which the codec
\* raised have both been answered with 400.
C22_Witness ==
  \E r1, r2 \in Req :
    /\ FetcherFailed(r1) /\ Count(r1, "get") = 0
    /\ MessageOf(r1) = "Error downloading image: stoi"
    /\ FetcherFailed(r2) /\ Count(r2, "decode") = 1 /\ Raised(r2) # {}
    /\ Sent(r1).status = 400 /\ Sent(r2).status = 400

\* ------------------------------------------------- urls, as the claims read
\* The 0-based index of the first character of s that is in cs, or npos.
FindFirstOf(s, cs) ==
  IF \E i \in 1..Len(s) : s[i] \in cs
  THEN (CHOOSE i \in 1..Len(s) : s[i] \in cs /\ \A j \in 1..(i - 1) : s[j] \notin cs) - 1
  ELSE npos

\* The 0-based index of the last c in s, or npos.
FindLast(s, c) ==
  IF \E i \in 1..Len(s) : s[i] = c
  THEN (CHOOSE i \in 1..Len(s) : s[i] = c /\ \A j \in (i + 1)..Len(s) : s[j] # c) - 1
  ELSE npos

\* The url without its scheme, and the default port of the scheme.
AfterScheme(url) ==
  IF BeginsWith(url, SchemeHttps) THEN substr_from(url, 8) ELSE substr_from(url, 7)
DefaultPort(url) == IF BeginsWith(url, SchemeHttps) THEN 443 ELSE 80

\* The authority: what stands before the first '/', '?' or '#'.
AuthorityOf(url) ==
  LET rest == AfterScheme(url)
      p == FindFirstOf(rest, {"/", "?", "#"})
  IN  IF p = npos THEN rest ELSE substr(rest, 0, p)

\* The authority without its userinfo.
HostPortOf(url) ==
  LET a == AuthorityOf(url)
      at == FindLast(a, "@")
  IN  IF at = npos THEN a ELSE substr_from(a, at + 1)

\* The 0-based index of the ':' that introduces the port, or npos: the one
\* after the closing bracket of an IPv6 literal, else the last one.
PortColon(hp) ==
  IF hp # <<>> /\ Head(hp) = "["
  THEN LET e == find(hp, "]")
       IN  IF e # npos /\ e + 2 <= Len(hp) /\ hp[e + 2] = ":" THEN e + 1 ELSE npos
  ELSE FindLast(hp, ":")

HasPortText(url) == PortColon(HostPortOf(url)) # npos
PortText(url) == substr_from(HostPortOf(url), PortColon(HostPortOf(url)) + 1)

\* The text is a decimal number in 1..65535 and nothing else.
ValidPortText(t) ==
  /\ t # <<>> /\ \A i \in 1..Len(t) : IsDigit(t[i])
  /\ DecimalValue(t, 0) >= 1 /\ DecimalValue(t, 0) <= 65535

ExpectedHost(url) ==
  LET hp == HostPortOf(url)
  IN  IF PortColon(hp) = npos THEN hp ELSE substr(hp, 0, PortColon(hp))

ExpectedPort(url) ==
  IF HasPortText(url) THEN DecimalValue(PortText(url), 0) ELSE DefaultPort(url)

\* Everything from the first '/' after the authority, or "/".
ExpectedPath(url) ==
  LET rest == AfterScheme(url)
      tail == substr_from(rest, Len(AuthorityOf(url)))
  IN  IF tail # <<>> /\ Head(tail) = "/" THEN tail ELSE <<"/">>

\* The url of r is accepted: http or https (with TLS in the build), and a
\* port, if it names one, that is a port.
AcceptedUrl(r) ==
  /\ HasUrl(r) /\ ~BadScheme(req[r].json.value)
  /\ BeginsWith(req[r].json.value, SchemeHttps) => ssl_support
  /\ HasPortText(req[r].json.value) => ValidPortText(PortText(req[r].json.value))

\* The targets of the GETs of r.
Targets(r) == {Events(r, "get")[i][2] : i \in 1..Count(r, "get")}

\* C23: for an accepted url the connection target is (host, port, path):
\* port is the explicit port after ':' in the authority when there is one,
\* else 80 for http and 443 for https; path is everything from the first
\* '/' after the authority, or "/"; host is the authority without the port.
\* This holds for every form of authority: with a query and no path, with
\* userinfo, with a bracketed IPv6 literal.
C23_ConnectionTarget ==
  \A r \in Req :
    Received(r) /\ AcceptedUrl(r) =>
      /\ Count(r, "get") = 1
      /\ \A t \in Targets(r) :
           /\ t.host = ExpectedHost(req[r].json.value)
           /\ t.port = ExpectedPort(req[r].json.value)
           /\ t.path = ExpectedPath(req[r].json.value)

\* The authority of the url is a name, or a name and a port, and what
\* follows it is nothing or a path.
PlainUrl(url) ==
  /\ FindFirstOf(AfterScheme(url), {"?", "#", "@", "[", "]"}) = npos
  /\ FindLast(AuthorityOf(url), ":") = find(AuthorityOf(url), ":")

\* The part of C23 that holds: the urls whose authority is host or
\* host:port and that have no query.
C23_PlainUrls ==
  \A r \in Req :
    Received(r) /\ AcceptedUrl(r) /\ PlainUrl(req[r].json.value) =>
      /\ Count(r, "get") = 1
      /\ \A t \in Targets(r) :
           /\ t.host = ExpectedHost(req[r].json.value)
           /\ t.port = ExpectedPort(req[r].json.value)
           /\ t.path = ExpectedPath(req[r].json.value)

\* The url of r is an http/https url whose authority has a ':' followed by a
\* text that is no port: empty, not a number, or outside 1..65535.
InvalidPortUrl(r) ==
  /\ HasUrl(r) /\ ~BadScheme(req[r].json.value)
  /\ HasPortText(req[r].json.value)
  /\ ~ValidPortText(PortText(req[r].json.value))

\* C29: for an http/https url whose authority has a ':' followed by a text
\* that is no valid port (empty, non-numeric, outside 1..65535) the fetcher
\* reports a failure (status 400) and opens no connection; it never
\* connects with a port outside 1..65535, nor with a port it got by
\* dropping the end of the text ("80abc").
C29_InvalidPortRejected ==
  \A r \in Req :
    /\ Received(r) /\ InvalidPortUrl(r) =>
         /\ Done(r)
         /\ Sent(r).status = 400
         /\ Count(r, "get") = 0
    /\ \A t \in Targets(r) : t.port >= 1 /\ t.port <= 65535

\* The part of C29 that holds: a port text that std::stoi refuses (empty,
\* not beginning with a digit or a sign, too large for an int) is answered
\* with 400 without a connection.
C29_StoiRefuses ==
  \A r \in Req :
    Received(r) /\ InvalidPortUrl(r) /\ stoi(PortText(req[r].json.value)).k = "throw" =>
      /\ Done(r)
      /\ Sent(r).status = 400
      /\ Count(r, "get") = 0

\* The url of r is an https:// url and the build has no TLS support.
HttpsWithoutTls(r) ==
  HasUrl(r) /\ BeginsWith(req[r].json.value, SchemeHttps) /\ ~ssl_support

\* What stands between the scheme and the first '/' of the url, as
\* download_image_from_url cuts it out, and the text after its first ':'.
RawHost(url) ==
  LET rest == AfterScheme(url)
      p == find(rest, "/")
  IN  IF p = npos THEN rest ELSE substr(rest, 0, p)

RawPortRefused(url) ==
  /\ find(RawHost(url), ":") # npos
  /\ stoi(substr_from(RawHost(url), find(RawHost(url), ":") + 1)).k = "throw"

HttpsNotSupported == "HTTPS not supported (compiled without SSL support)"

\* C24 as stated: in a build without TLS support every https:// url on
\* /api/ocr/url fails with the "HTTPS not supported" error (status 400) and
\* no connection is opened; the request is never downgraded to a plain GET.
C24_HttpsNotSupported ==
  \A r \in Req :
    Received(r) /\ HttpsWithoutTls(r) =>
      /\ Done(r)
      /\ Sent(r).status = 400
      /\ MessageOf(r) = HttpsNotSupported
      /\ Count(r, "get") = 0

\* C24 amended: in a build without TLS support every https:// url on
\* /api/ocr/url fails with status 400 and no connection is opened; the
\* error is "HTTPS not supported" unless the text after the first ':' of the
\* host is refused as a port, which is reported as that error instead.
C24_HttpsNeverFetched ==
  \A r \in Req :
    Received(r) /\ HttpsWithoutTls(r) =>
      /\ Done(r)
      /\ Sent(r).status = 400
      /\ Count(r, "get") = 0
      /\ MessageOf(r) =
           (IF RawPortRefused(req[r].json.value)
            THEN "Error downloading image: stoi" ELSE HttpsNotSupported)

\* C24 witness: without TLS support, https://h:8080/a has been answered
\* with "HTTPS not supported" and https://h:x/a with the port error.
C24_Witness ==
  \E r \in Req :
    /\ Done(r) /\ HttpsWithoutTls(r) /\ Count(r, "get") = 0
    /\ req[r].json.value = SchemeHttps \o <<"h", ":", "x">> \o <<"/", "a">>
    /\ MessageOf(r) = "Error downloading image: stoi"

\* The event at position i of the trace of r is the failure of a step: a
\* GET without a 200, a body over the limit, a base64 text that is none, a
\* decode that raised or gave no image, a backend call that threw.
FailureAt(r, i) ==
  LET e == trace[r][i]
  IN  \/ e[1] = "fetched" /\ (~(e[2].responded /\ e[2].status = 200) \/ download_too_large(e[2].body))
      \/ e[1] = "base64" /\ base64_decode(e[2]).k = "throw"
      \/ e[1] = "decode" /\ (imdecode(e[2]).k = "throw" \/ imdecode(e[2]).v.empty)
      \/ e[1] = "ocr_result" /\ e[2].k = "throw"

\* C25: no retries: within one request the gateway issues at most one GET,
\* calls the image decoder at most once and the OCR backend at most once,
\* and after the first failure of one of these steps nothing more is
\* called: what follows in the request is its error response.
C25_NoRetries ==
  \A r \in Req :
    /\ Count(r, "get") <= 1 /\ Count(r, "decode") <= 1 /\ Count(r, "ocr") <= 1
    /\ \A i \in 1..Len(trace[r]) :
         FailureAt(r, i) =>
           /\ \A j \in (i + 1)..Len(trace[r]) : trace[r][j][1] \in {"log", "escape", "response"}
           /\ Done(r)
           /\ ~Is2xx(Sent(r).status)

\* C25 witness: a GET that got no response and a backend call that threw
\* have been answered, each after one call.
C25_Witness ==
  \E r1, r2 \in Req :
    /\ Done(r1) /\ Count(r1, "get") = 1 /\ \E f \in Fetched(r1) : ~f.responded
    /\ Done(r2) /\ Count(r2, "decode") = 1 /\ Count(r2, "ocr") = 1 /\ Raised(r2) # {}
    /\ ~Is2xx(Sent(r1).status) /\ ~Is2xx(Sent(r2).status)

\* Some other worker is inside run_ocr_mat.
BackendBusy(r) == InBackend(r) # {}

\* C26: the gateway does not serialize access to the shared OCR backend:
\* while another worker is inside run_ocr_mat, a worker that has an image
\* can enter the call too, on each of the three OCR routes (no lock, queue
\* or semaphore is taken around it), so that two handlers are inside
\* run_ocr_mat on the same Task at the same time.
C26_BackendNotSerialized ==
  \A r \in Req :
    /\ BackendBusy(r) /\ Arrives(r) =>
         /\ ENABLED (OcrUpload(r) /\ pc'[r] = "in_ocr")
         /\ ENABLED (OcrBase64(r) /\ pc'[r] = "in_ocr")
    /\ BackendBusy(r) /\ pc[r] = "fetching" =>
         ENABLED (FetchReturn(r) /\ pc'[r] = "in_ocr")

\* C26 witness: two handlers, one of /api/ocr and one of /api/ocr/base64,
\* are inside run_ocr_mat at the same time.
C26_Witness ==
  \E r1, r2 \in Req :
    /\ pc[r1] = "in_ocr" /\ req[r1].path = "/api/ocr"
    /\ pc[r2] = "in_ocr" /\ req[r2].path = "/api/ocr/base64"

\* The listen calls start() has made.
ListenCalls == server.calls

\* C30: start() first listens on 127.0.0.1:port and tries 0.0.0.0:port only
\* if that listen call returned false; the server never listens on both
\* addresses; and after stop() has made a successful listen return, start()
\* returns without opening the fallback listener.
C30_StartStop ==
  /\ \A i \in 1..Len(ListenCalls) :
       /\ ListenCalls[i].host = (IF i = 1 THEN "127.0.0.1" ELSE "0.0.0.0")
       /\ i = 2 => ListenCalls[1].result = "false"
  /\ Len(ListenCalls) <= 2
  /\ Cardinality(server.on) <= 1
  /\ server.on =
       {ListenCalls[i].host : i \in {j \in 1..Len(ListenCalls) : ListenCalls[j].result = "running"}}
  /\ Len(ListenCalls) >= 1 /\ ListenCalls[1].result = "true" =>
       server.at = "returned" /\ server.on = {} /\ Len(ListenCalls) = 1

\* C30 witness: stop() has ended the listen on 127.0.0.1 while a request
\* was being served, and start() has returned.
C30_Witness ==
  /\ server.at = "returned"
  /\ ListenCalls = <<ListenCall("127.0.0.1", "true")>>
  /\ \E r \in LiveReq : Done(r)

\* The fallback has been taken: 127.0.0.1 could not be served and the
\* server listens on 0.0.0.0.
C30_FallbackTaken ==
  /\ server.at = "listening" /\ server.on = {"0.0.0.0"}
  /\ ListenCalls[1] = ListenCall("127.0.0.1", "false")

\* r1 and r2 are answered requests that were the same, named the same
\* upstream behaviour and got the same from the backend.
SameCall(r1, r2) ==
  /\ Done(r1) /\ Done(r2)
  /\ req[r1] = req[r2]
  /\ Fetched(r1) = Fetched(r2)
  /\ BackendOutcomes(r1) = BackendOutcomes(r2)

\* The response to a request depends only on the request, the upstream and
\* the backend.
C27_SameCallSameResponse ==
  \A r1, r2 \in Req :
    SameCall(r1, r2) =>
      /\ Sent(r1).status = Sent(r2).status
      /\ Sent(r1).body = Sent(r2).body
      /\ Sent(r1).content_type = Sent(r2).content_type
      /\ Sent(r1).headers = Sent(r2).headers

\* A step of the worker of some request.
HandlerStep == \E r \in DOMAIN pc : pc'[r] # pc[r]

NonStringField(r) ==
  /\ Received(r) /\ IsJsonRoute(r)
  /\ req[r].json.wf /\ req[r].json.has /\ ~req[r].json.is_string

\* C28: on the two JSON routes a well-formed body whose required field is
\* present but is not a string is answered with status 400, and nothing is
\* fetched, decoded or recognised.
C28_NonStringField ==
  \A r \in Req :
    NonStringField(r) => Done(r) /\ Sent(r).status = 400 /\ NothingInvoked(r)

\* The part of C28 the handlers do keep: nothing is fetched, decoded or
\* recognised for such a body.
C28_NothingInvoked ==
  \A r \in Req : NonStringField(r) => Done(r) /\ NothingInvoked(r)

\* What the handlers answer instead: the conversion to std::string raises
\* and the catch-all answers 500.
C28_Answered500 ==
  \E r \in Req : NonStringField(r) /\ Done(r) /\ Sent(r).status = 500

====
